---- MODULE Spec2Model ----
(***************************************************************************)
(* A model of the local installer of the speculate CLI                     *)
(* (src/cli/src/speculate/cli/cli_commands.py): the header injector, the   *)
(* install metadata store, the pattern matcher, the symlink projector and  *)
(* the install command that sequences them.                                *)
(*                                                                         *)
(* Text is modelled as a sequence of one-character strings, so that        *)
(* substring search, concatenation, glob matching and stems are computed   *)
(* the way the code computes them.  A file is a record [exists, content].  *)
(***************************************************************************)
EXTENDS Integers, Sequences, FiniteSets, TLC

VARIABLES
    docs,      \* TRUE iff <root>/docs exists
    rules,     \* docs/general/agent-rules: [exists, files (a set of names)]
    cursor,    \* .cursor/rules: [exists, entries (name -> directory entry)]
    files,     \* the two header-tagged files: name -> [exists, content]
    settings,  \* .speculate/settings.yml: [kind, pairs]
    answers,   \* .copier-answers.yml: [kind, pairs]
    clock,     \* the number of timestamps taken so far (datetime.now)
    calls,     \* header file -> number of _ensure_speculate_header calls on it
    writes,    \* header file -> number of times the injector wrote it
    orig,      \* the file system as it was before the first operation
    pre,       \* the file system as it was before the last operation
    last,      \* the last operation: its name, arguments and outcome
    prev,      \* the operation before the last one
    devmd,     \* TRUE iff docs/development.md exists
    job,       \* the atomic write in progress: [pc, target, payload, written, temp]
    procs      \* the processes running concurrently: id -> [cmd, pc, locals]

vars ==
    << docs, rules, cursor, files, settings, answers, clock, calls, writes,
       orig, pre, last, prev, devmd, job, procs >>

----------------------------------------------------------------------------
(* Bounds of the model.                                                    *)

\* the longest initial header file, counted in pieces of InitialPieces
MaxPieces == 2
\* the most calls of the header injector on one file
MaxCalls == 3
\* the most files initially in the rules source directory
MaxDocs == 2
\* the most entries initially in the link directory
MaxEntries == 2
\* the most timestamps taken (runs of the metadata store)
MaxClock == 3
\* the most lines initially in the settings file
MaxKeys == 2
\* the most runs of install
MaxRuns == 2
\* the most pieces a crash can cut one write_text call into
MaxChunks == 3
\* the most patterns in an include or exclude list given to the matcher
MaxPatterns == 1

----------------------------------------------------------------------------
(* Text helpers: Python's `in`, str.count and str.replace on sequences of  *)
(* characters.                                                             *)

\* s[i..] starts with m
StartsAt(s, m, i) ==
    /\ i + Len(m) - 1 <= Len(s)
    /\ m = <<>> \/ s[i] = m[1]
    /\ SubSeq(s, i, i + Len(m) - 1) = m

\* Python's `m in s` for strings
Contains(s, m) == \E i \in 1..(Len(s) + 1) : StartsAt(s, m, i)

\* Python's s.startswith(m)
StartsWith(s, m) == StartsAt(s, m, 1)

\* Python's s.count(m) for a non-empty m: the occurrences are counted left
\* to right without overlap, each search resuming behind the last match
RECURSIVE CountFrom(_, _, _)
CountFrom(s, m, i) ==
    LET found == {j \in i..(Len(s) - Len(m) + 1) : StartsAt(s, m, j)}
    IN  IF found = {} THEN 0
        ELSE LET first == CHOOSE j \in found : \A k \in found : j <= k
             IN  1 + CountFrom(s, m, first + Len(m))

Count(s, m) == CountFrom(s, m, 1)

\* the concatenation of a sequence of texts
RECURSIVE Concat(_)
Concat(ss) == IF ss = <<>> THEN <<>> ELSE Head(ss) \o Concat(Tail(ss))

\* all sequences over S of length at most n
RECURSIVE SeqsUpTo(_, _)
SeqsUpTo(S, n) ==
    IF n = 0 THEN {<<>>}
    ELSE LET shorter == SeqsUpTo(S, n - 1)
         IN  shorter \cup {Append(q, x) : q \in shorter, x \in S}

----------------------------------------------------------------------------
(* The header injector.                                                    *)

SPECULATE_MARKER ==
    <<"S", "p", "e", "c", "u", "l", "a", "t", "e", " ", "p", "r", "o", "j",
      "e", "c", "t", " ", "s", "t", "r", "u", "c", "t", "u", "r", "e">>

SPECULATE_HEADER ==
    <<"I", "M", "P", "O", "R", "T", "A", "N", "T", ":", " ", "Y", "o", "u",
      " ", "M", "U", "S", "T", " ", "r", "e", "a", "d", " ", ".", "/", "d",
      "o", "c", "s", "/", "d", "e", "v", "e", "l", "o", "p", "m", "e", "n",
      "t", ".", "m", "d", " ", "a", "n", "d", " ", ".", "/", "d", "o", "c",
      "s", "/", "d", "o", "c", "s", "-", "o", "v", "e", "r", "v", "i", "e",
      "w", ".", "m", "d", " ", "f", "o", "r", " ", "p", "r", "o", "j", "e",
      "c", "t", " ", "d", "o", "c", "u", "m", "e", "n", "t", "a", "t", "i",
      "o", "n", ".", "\n", "(", "T", "h", "i", "s", " ", "p", "r", "o", "j",
      "e", "c", "t", " ", "u", "s", "e", "s", " ">>
    \o SPECULATE_MARKER \o <<".", ")">>

\* the two header-tagged files install maintains
HeaderFiles == {"CLAUDE.md", "AGENTS.md"}

AbsentFile == [exists |-> FALSE, content |-> <<>>]
File(c) == [exists |-> TRUE, content |-> c]

\* a variant of the injector that prepends without looking for the marker
EnsureHeaderNoCheck(f) ==
    IF f.exists
    THEN [file |-> File(SPECULATE_HEADER \o <<"\n", "\n">> \o f.content),
          action |-> "Updated", wrote |-> TRUE]
    ELSE [file |-> File(SPECULATE_HEADER \o <<"\n">>),
          action |-> "Created", wrote |-> TRUE]

\* a variant of the injector that separates header and content by one
\* newline
EnsureHeaderOneNewline(f) ==
    IF f.exists
    THEN IF Contains(f.content, SPECULATE_MARKER)
         THEN [file |-> f, action |-> "Unchanged", wrote |-> FALSE]
         ELSE [file |-> File(SPECULATE_HEADER \o <<"\n">> \o f.content),
               action |-> "Updated", wrote |-> TRUE]
    ELSE [file |-> File(SPECULATE_HEADER \o <<"\n">>),
          action |-> "Created", wrote |-> TRUE]

\* a variant of the injector that only creates the file and never touches
\* an existing one
EnsureHeaderSkipsExisting(f) ==
    IF f.exists
    THEN [file |-> f, action |-> "Unchanged", wrote |-> FALSE]
    ELSE [file |-> File(SPECULATE_HEADER \o <<"\n">>),
          action |-> "Created", wrote |-> TRUE]

\* a variant of the injector that puts the header below the content
EnsureHeaderAppends(f) ==
    IF f.exists
    THEN IF Contains(f.content, SPECULATE_MARKER)
         THEN [file |-> f, action |-> "Unchanged", wrote |-> FALSE]
         ELSE [file |-> File(f.content \o <<"\n", "\n">> \o SPECULATE_HEADER),
               action |-> "Updated", wrote |-> TRUE]
    ELSE [file |-> File(SPECULATE_HEADER \o <<"\n">>),
          action |-> "Created", wrote |-> TRUE]

\* a variant of the injector that looks for the header at the top of the
\* file instead of the marker anywhere in it
EnsureHeaderChecksTop(f) ==
    IF f.exists
    THEN IF StartsWith(f.content, SPECULATE_HEADER)
         THEN [file |-> f, action |-> "Unchanged", wrote |-> FALSE]
         ELSE [file |-> File(SPECULATE_HEADER \o <<"\n", "\n">> \o f.content),
               action |-> "Updated", wrote |-> TRUE]
    ELSE [file |-> File(SPECULATE_HEADER \o <<"\n">>),
          action |-> "Created", wrote |-> TRUE]

\* _ensure_speculate_header on a file in state f: the file afterwards, the
\* action reported and whether the file was written
EnsureSpeculateHeader(f) ==
    IF f.exists
    THEN IF Contains(f.content, SPECULATE_MARKER)
         THEN [file |-> f, action |-> "Unchanged", wrote |-> FALSE]
         ELSE [file |-> File(SPECULATE_HEADER \o <<"\n", "\n">> \o f.content),
               action |-> "Updated", wrote |-> TRUE]
    ELSE [file |-> File(SPECULATE_HEADER \o <<"\n">>),
          action |-> "Created", wrote |-> TRUE]

----------------------------------------------------------------------------
(* The pattern matcher.  A name or a pattern is a sequence of characters;   *)
(* a filter list is [given, pats]: given = FALSE is Python's None.          *)

\* fnmatch.fnmatch(name, pat) for patterns of literals, `*` and `?`: the
\* match is anchored at both ends and case-sensitive (POSIX normcase)
RECURSIVE FnMatch(_, _)
FnMatch(name, pat) ==
    IF pat = <<>> THEN name = <<>>
    ELSE IF Head(pat) = "*"
         THEN \/ FnMatch(name, Tail(pat))
              \/ name # <<>> /\ FnMatch(Tail(name), pat)
    ELSE /\ name # <<>>
         /\ Head(pat) = "?" \/ Head(pat) = Head(name)
         /\ FnMatch(Tail(name), Tail(pat))

\* normalize: pattern.replace("**", "*"), left to right without overlap
RECURSIVE Normalize(_)
Normalize(pat) ==
    IF Len(pat) < 2 THEN pat
    ELSE IF pat[1] = "*" /\ pat[2] = "*"
         THEN <<"*">> \o Normalize(SubSeq(pat, 3, Len(pat)))
    ELSE <<pat[1]>> \o Normalize(Tail(pat))

\* Python's truth value of an optional list
Truthy(list) == list.given /\ list.pats # <<>>

\* any(fnmatch.fnmatch(filename, normalize(p)) for p in list)
AnyMatch(filename, list) ==
    \E i \in 1..Len(list.pats) : FnMatch(filename, Normalize(list.pats[i]))

\* a variant of the matcher that forgets the exclude list
MatchesIncludeOnly(filename, include, exclude) ==
    ~(Truthy(include) /\ ~AnyMatch(filename, include))

\* _matches_patterns(filename, include, exclude)
MatchesPatterns(filename, include, exclude) ==
    IF Truthy(include) /\ ~AnyMatch(filename, include) THEN FALSE
    ELSE IF Truthy(exclude) /\ AnyMatch(filename, exclude) THEN FALSE
    ELSE TRUE

----------------------------------------------------------------------------
(* The symlink projector.                                                  *)

MD == <<".", "m", "d">>
MDC == <<".", "m", "d", "c">>

\* the characters of file names, in code point order (str comparison)
CharOrder == <<"*", "-", ".", "/", "?", "a", "b", "c", "d", "m", "n", "t",
               "x", "y", "z">>

Rank(c) == CHOOSE i \in 1..Len(CharOrder) : CharOrder[i] = c

\* Python's s < t on strings
RECURSIVE StrLess(_, _)
StrLess(s, t) ==
    IF t = <<>> THEN FALSE
    ELSE IF s = <<>> THEN TRUE
    ELSE IF Head(s) = Head(t) THEN StrLess(Tail(s), Tail(t))
    ELSE Rank(Head(s)) < Rank(Head(t))

\* sorted(S) for a set of names
RECURSIVE Sorted(_)
Sorted(S) ==
    IF S = {} THEN <<>>
    ELSE LET least == CHOOSE n \in S : \A o \in S \ {n} : StrLess(n, o)
         IN  <<least>> \o Sorted(S \ {least})

\* the index of the last "." of a name, 0 when it has none
LastDot(name) ==
    IF \E i \in 1..Len(name) : name[i] = "."
    THEN CHOOSE i \in 1..Len(name) :
            name[i] = "." /\ \A j \in (i + 1)..Len(name) : name[j] # "."
    ELSE 0

\* pathlib's PurePath.stem: the name without its last suffix; a leading or
\* a trailing dot starts no suffix
Stem(name) ==
    LET i == LastDot(name)
    IN  IF 1 < i /\ i < Len(name) THEN SubSeq(name, 1, i - 1) ELSE name

\* a variant of the listing that yields every entry of the rules directory
GlobAll(dir) == dir.files

\* rules_dir.glob("*.md"): the entries of the rules directory named *.md
Glob(dir) == {n \in dir.files : FnMatch(n, <<"*">> \o MD)}

\* a variant of the link name that keeps the source suffix
LinkNameKeepsSuffix(name) == name \o MDC

\* link_name = rule_file.stem + ".mdc"
LinkName(name) == Stem(name) \o MDC

RulesDirParts == <<"..", "..", "docs", "general", "agent-rules">>

\* a variant of the target that is the absolute path of the rule file
AbsoluteTarget(name) ==
    [parts |-> <<"/", "project", "docs", "general", "agent-rules">>,
     name |-> name]

\* relative_target = Path("..") / ".." / "docs" / "general" / "agent-rules"
\*                   / rule_file.name
RelativeTarget(name) == [parts |-> RulesDirParts, name |-> name]

\* directory entries of the link directory
RegularFile == [kind |-> "file", target |-> [parts |-> <<>>, name |-> <<>>]]
Directory == [kind |-> "dir", target |-> [parts |-> <<>>, name |-> <<>>]]
Symlink(t) == [kind |-> "symlink", target |-> t]

\* a directory's entries without the entry called n (Path.unlink)
Unlink(entries, n) == [m \in DOMAIN entries \ {n} |-> entries[m]]

\* a directory's entries with a new symlink n -> t (Path.symlink_to)
SymlinkTo(entries, n, t) ==
    [m \in DOMAIN entries \cup {n} |-> IF m = n THEN Symlink(t) ELSE entries[m]]

\* a variant of the loop that leaves whatever is at the link path in place
RECURSIVE LinkLoopKeepsExisting(_, _, _, _, _, _)
LinkLoopKeepsExisting(todo, entries, include, exclude, linked, skipped) ==
    IF todo = <<>>
    THEN [entries |-> entries, result |-> "ok",
          linked |-> linked, skipped |-> skipped]
    ELSE LET rule_file == Head(todo)
             link_name == LinkName(rule_file)
         IN  IF ~MatchesPatterns(rule_file, include, exclude)
             THEN LinkLoopKeepsExisting(Tail(todo), entries, include, exclude,
                                        linked, skipped + 1)
             ELSE IF link_name \in DOMAIN entries
                  THEN LinkLoopKeepsExisting(Tail(todo), entries, include,
                                             exclude, linked + 1, skipped)
             ELSE LinkLoopKeepsExisting(Tail(todo),
                           SymlinkTo(entries, link_name,
                                     RelativeTarget(rule_file)),
                           include, exclude, linked + 1, skipped)

\* the loop of _setup_cursor_rules over the sorted rule files still to do:
\* a file the filter rejects is counted as skipped; for the others whatever
\* is at the link path is unlinked (which raises on a directory) and the
\* relative symlink is created
RECURSIVE LinkLoop(_, _, _, _, _, _)
LinkLoop(todo, entries, include, exclude, linked, skipped) ==
    IF todo = <<>>
    THEN [entries |-> entries, result |-> "ok",
          linked |-> linked, skipped |-> skipped]
    ELSE LET rule_file == Head(todo)
             link_name == LinkName(rule_file)
         IN  IF ~MatchesPatterns(rule_file, include, exclude)
             THEN LinkLoop(Tail(todo), entries, include, exclude,
                           linked, skipped + 1)
             ELSE IF /\ link_name \in DOMAIN entries
                     /\ entries[link_name].kind = "dir"
                  THEN [entries |-> entries, result |-> "raised",
                        linked |-> linked, skipped |-> skipped]
             ELSE LinkLoop(Tail(todo),
                           SymlinkTo(Unlink(entries, link_name), link_name,
                                     RelativeTarget(rule_file)),
                           include, exclude, linked + 1, skipped)

\* a variant of the projector that empties the link directory before it
\* links
SetupCursorRulesRebuild(cur, rul, include, exclude) ==
    IF ~rul.exists
    THEN [cursor |-> [exists |-> TRUE, entries |-> cur.entries],
          result |-> "warned", linked |-> 0, skipped |-> 0]
    ELSE LET r == LinkLoop(Sorted(Glob(rul)), [n \in {} |-> RegularFile],
                           include, exclude, 0, 0)
         IN  [cursor |-> [exists |-> TRUE, entries |-> r.entries],
              result |-> r.result, linked |-> r.linked,
              skipped |-> r.skipped]

\* _setup_cursor_rules on link directory cur and rules directory rul: the
\* link directory afterwards, how the call ended and the two counts
SetupCursorRules(cur, rul, include, exclude) ==
    IF ~rul.exists
    THEN [cursor |-> [exists |-> TRUE, entries |-> cur.entries],
          result |-> "warned", linked |-> 0, skipped |-> 0]
    ELSE LET r == LinkLoop(Sorted(Glob(rul)), cur.entries, include, exclude,
                           0, 0)
         IN  [cursor |-> [exists |-> TRUE, entries |-> r.entries],
              result |-> r.result, linked |-> r.linked,
              skipped |-> r.skipped]

----------------------------------------------------------------------------
(* The install metadata store.  A YAML file is [kind, pairs]: absent,      *)
(* invalid (no YAML document), scalar (a document that is no mapping) or   *)
(* map, whose pairs are the <<key, value>> lines in file order.            *)

AbsentYaml == [kind |-> "absent", pairs |-> <<>>]
InvalidYaml == [kind |-> "invalid", pairs |-> <<>>]
ScalarYaml == [kind |-> "scalar", pairs |-> <<>>]
MapYaml(pairs) == [kind |-> "map", pairs |-> pairs]

EmptyDict == [k \in {} |-> ""]

\* d[k] = v
Put(d, k, v) == [x \in DOMAIN d \cup {k} |-> IF x = k THEN v ELSE d[x]]

\* d.get(k, default)
Get(d, k, default) == IF k \in DOMAIN d THEN d[k] ELSE default

\* the mapping a sequence of pairs denotes: a later pair overrides an
\* earlier one with the same key
RECURSIVE DictOf(_)
DictOf(pairs) ==
    IF pairs = <<>> THEN EmptyDict
    ELSE LET n == Len(pairs)
         IN  Put(DictOf(SubSeq(pairs, 1, n - 1)), pairs[n][1], pairs[n][2])

\* _load_yaml(path) on an existing file: yaml.safe_load raises on text
\* that is no YAML; a document that is no mapping loads as {}
LoadYaml(f) ==
    IF f.kind = "invalid" THEN [ok |-> FALSE, dict |-> EmptyDict]
    ELSE IF f.kind = "map" THEN [ok |-> TRUE, dict |-> DictOf(f.pairs)]
    ELSE [ok |-> TRUE, dict |-> EmptyDict]

\* the keys of the model in sorted order (yaml.dump sorts keys)
KeyOrder ==
    <<"_commit", "_src_path", "custom_key", "last_cli_version",
      "last_docs_version", "last_update", "x">>

\* yaml.dump(d, default_flow_style=False): one line per key, keys sorted
Dump(d) ==
    LET keys == SelectSeq(KeyOrder, LAMBDA k : k \in DOMAIN d)
    IN  MapYaml([i \in 1..Len(keys) |-> <<keys[i], d[keys[i]]>>])

\* datetime.now(UTC).isoformat() at the n-th reading of the clock
IsoFormat(n) == "2025-01-01T00:00:0" \o ToString(n) \o "+00:00"

\* a variant of the store's loading step that starts from a fresh mapping
LoadSettingsFresh(s) == [ok |-> TRUE, dict |-> EmptyDict]

\* settings = _load_yaml(settings_file) if settings_file.exists() else {}
LoadSettings(s) ==
    IF s.kind = "absent" THEN [ok |-> TRUE, dict |-> EmptyDict]
    ELSE LoadYaml(s)

\* a variant of the store that stamps last_docs_version "unknown" when
\* there is no answers file
UpdateSettingsStampsDocsVersion(s, a, now, ver) ==
    LET loaded == LoadSettings(s)
        d1 == Put(loaded.dict, "last_update", now)
        d2 == Put(d1, "last_cli_version",
                  IF ver.ok THEN ver.value ELSE "unknown")
        al == LoadYaml(a)
        d3 == Put(d2, "last_docs_version", Get(al.dict, "_commit", "unknown"))
    IN  IF ~loaded.ok THEN [settings |-> s, result |-> "raised"]
        ELSE IF a.kind # "absent" /\ ~al.ok
             THEN [settings |-> s, result |-> "raised"]
        ELSE [settings |-> Dump(d3), result |-> "ok"]

\* a variant of the store without the fallback for a failed version lookup
UpdateSettingsNoFallback(s, a, now, ver) ==
    LET loaded == LoadSettings(s)
        d1 == Put(loaded.dict, "last_update", now)
        d2 == Put(d1, "last_cli_version", ver.value)
        al == LoadYaml(a)
        d3 == IF a.kind # "absent"
              THEN Put(d2, "last_docs_version",
                       Get(al.dict, "_commit", "unknown"))
              ELSE d2
    IN  IF ~loaded.ok THEN [settings |-> s, result |-> "raised"]
        ELSE IF a.kind # "absent" /\ ~al.ok
             THEN [settings |-> s, result |-> "raised"]
        ELSE [settings |-> Dump(d3), result |-> "ok"]

\* _update_speculate_settings with settings file s and answers file a, at
\* time now; ver is what version("speculate") returns ([ok, value])
UpdateSpeculateSettings(s, a, now, ver) ==
    LET loaded == LoadSettings(s)
        d1 == Put(loaded.dict, "last_update", now)
        d2 == Put(d1, "last_cli_version",
                  IF ver.ok THEN ver.value ELSE "unknown")
        al == LoadYaml(a)
        d3 == IF a.kind # "absent"
              THEN Put(d2, "last_docs_version",
                       Get(al.dict, "_commit", "unknown"))
              ELSE d2
    IN  IF ~loaded.ok THEN [settings |-> s, result |-> "raised"]
        ELSE IF a.kind # "absent" /\ ~al.ok
             THEN [settings |-> s, result |-> "raised"]
        ELSE [settings |-> Dump(d3), result |-> "ok"]

----------------------------------------------------------------------------
(* The states the operations are started in.                               *)

\* what initial header files are made of: the marker, a heading, a newline
InitialPieces == {SPECULATE_MARKER, <<"#">>, <<"\n">>}

\* the header files of the component runs: absent, or any text of at most
\* MaxPieces pieces
HeaderFileStates ==
    {AbsentFile} \cup {File(Concat(q)) : q \in SeqsUpTo(InitialPieces, MaxPieces)}

\* the header files of the install runs: absent, plain text, the marker
\* below other text, the marker twice
InstallFileStates ==
    {AbsentFile, File(<<"#">>), File(<<"#", "\n">> \o SPECULATE_MARKER),
     File(SPECULATE_MARKER \o <<"\n">> \o SPECULATE_MARKER)}

\* f holds the marker below other text
MarkerBelow(f) == f = File(<<"#", "\n">> \o SPECULATE_MARKER)

\* f holds the marker twice
MarkerTwice(f) == f = File(SPECULATE_MARKER \o <<"\n">> \o SPECULATE_MARKER)

\* the names a rules directory is populated from
RuleNames ==
    {<<"a">> \o MD, <<"b", "-", "x">> \o MD, <<"b", "-", "y">> \o MD,
     <<"n", ".", "t", "x", "t">>}

AbsentDir == [exists |-> FALSE, files |-> {}]

RulesStates ==
    {AbsentDir} \cup
    {[exists |-> TRUE, files |-> S] :
        S \in {T \in SUBSET RuleNames : Cardinality(T) <= MaxDocs}}

\* the names the link directory initially holds entries under
LinkNames == {<<"a">> \o MDC, <<"b", "-", "x">> \o MDC, <<"z">> \o MDC}

\* a symlink target outside the project
OtherTarget == [parts |-> <<"/", "tmp">>, name |-> <<"z">> \o MD]

\* what may initially be at link path n: a regular file, a directory, the
\* link an earlier run made, a link to somewhere else
EntryChoices(n) ==
    {RegularFile, Directory, Symlink(RelativeTarget(Stem(n) \o MD)),
     Symlink(OtherTarget)}

NoCursor == [exists |-> FALSE, entries |-> [n \in {} |-> RegularFile]]

CursorStates ==
    {NoCursor} \cup
    UNION {{[exists |-> TRUE, entries |-> e] :
                e \in {g \in [D -> UNION {EntryChoices(n) : n \in D}] :
                          \A n \in D : g[n] \in EntryChoices(n)}} :
           D \in {E \in SUBSET LinkNames : Cardinality(E) <= MaxEntries}}

NoList == [given |-> FALSE, pats |-> <<>>]
List(pats) == [given |-> TRUE, pats |-> pats]

\* the include and exclude lists the projector is called with
IncludeChoices ==
    {NoList, List(<<<<"b", "-", "*">>>>), List(<<<<"a", "*", ".", "m", "d">>>>)}
ExcludeChoices == {NoList, List(<<<<"*", "-", "y", ".", "m", "d">>>>)}

\* the lines an initial settings file is made of
SettingsPairs ==
    {<<"x", "y">>, <<"x", "z">>, <<"custom_key", "custom_value">>,
     <<"last_update", "2024-12-31T00:00:00+00:00">>,
     <<"last_docs_version", "v0">>}

SettingsStates ==
    {AbsentYaml, InvalidYaml, ScalarYaml} \cup
    {MapYaml(q) : q \in SeqsUpTo(SettingsPairs, MaxKeys)}

AnswersStates ==
    {AbsentYaml, InvalidYaml, ScalarYaml,
     MapYaml(<<<<"_src_path", "gh:test/repo">>>>),
     MapYaml(<<<<"_commit", "v1.2.3">>, <<"_src_path", "gh:test/repo">>>>)}

\* what importlib.metadata.version("speculate") does: returns or raises
VersionLookups ==
    {[ok |-> TRUE, value |-> "0.1.0"], [ok |-> FALSE, value |-> ""]}

\* no process is running concurrently
NoProcs == <<>>

\* no atomic write is in progress
IdleJob ==
    [pc |-> "idle", target |-> "", payload |-> <<>>, written |-> 0,
     temp |-> FALSE]

----------------------------------------------------------------------------
(* Observation of the operations.                                          *)

Snapshot ==
    [docs |-> docs, rules |-> rules, cursor |-> cursor, files |-> files,
     settings |-> settings, answers |-> answers, writes |-> writes,
     devmd |-> devmd]

\* no version lookup was made
NoLookup == [ok |-> FALSE, value |-> ""]

NoOp ==
    [op |-> "none", path |-> "", include |-> NoList, exclude |-> NoList,
     result |-> "", action |-> "", linked |-> 0, skipped |-> 0,
     ver |-> NoLookup, steps |-> <<>>, name |-> <<>>]

Observed(op, path, include, exclude, result, action, linked, skipped) ==
    [op |-> op, path |-> path, include |-> include, exclude |-> exclude,
     result |-> result, action |-> action, linked |-> linked,
     skipped |-> skipped, ver |-> NoLookup, steps |-> <<>>, name |-> <<>>]

\* the observation obs of an operation that looked the version up
WithLookup(obs, ver) == [obs EXCEPT !.ver = ver]

\* the observation obs of a call with the file name name
WithName(obs, name) == [obs EXCEPT !.name = name]

\* the observation obs of a run that went through the given steps
WithSteps(obs, steps) == [obs EXCEPT !.steps = steps]

InitObservation ==
    /\ clock = 0
    /\ calls = [f \in HeaderFiles |-> 0]
    /\ writes = [f \in HeaderFiles |-> 0]
    /\ orig = Snapshot
    /\ pre = Snapshot
    /\ last = NoOp
    /\ prev = NoOp

Observe(obs) ==
    /\ pre' = Snapshot
    /\ last' = obs
    /\ prev' = last
    /\ orig' = orig

----------------------------------------------------------------------------
(* The header injector run on its own.                                     *)

InitHeader ==
    /\ docs = TRUE
    /\ rules = AbsentDir
    /\ cursor = NoCursor
    /\ files \in [HeaderFiles -> HeaderFileStates]
    /\ settings = AbsentYaml
    /\ answers = AbsentYaml
    /\ devmd = docs
    /\ job = IdleJob
    /\ procs = NoProcs
    /\ InitObservation

\* one call _ensure_speculate_header(path)
EnsureHeader(path) ==
    /\ calls[path] < MaxCalls
    /\ LET r == EnsureSpeculateHeader(files[path])
       IN  /\ files' = [files EXCEPT ![path] = r.file]
           /\ writes' = [writes EXCEPT ![path] = @ + (IF r.wrote THEN 1 ELSE 0)]
           /\ Observe(Observed("header", path, NoList, NoList, "ok",
                               r.action, 0, 0))
    /\ calls' = [calls EXCEPT ![path] = @ + 1]
    /\ UNCHANGED <<docs, rules, cursor, settings, answers, clock, devmd, procs, job>>

NextHeader == \E path \in HeaderFiles : EnsureHeader(path)

SpecHeader == InitHeader /\ [][NextHeader]_vars

----------------------------------------------------------------------------
(* The symlink projector run on its own.                                   *)

InitRules ==
    /\ docs = TRUE
    /\ rules \in RulesStates
    /\ cursor \in CursorStates
    /\ files = [f \in HeaderFiles |-> AbsentFile]
    /\ settings = AbsentYaml
    /\ answers = AbsentYaml
    /\ devmd = docs
    /\ job = IdleJob
    /\ procs = NoProcs
    /\ InitObservation

\* one call _setup_cursor_rules(project_root, include, exclude)
SetupRules(include, exclude) ==
    /\ LET r == SetupCursorRules(cursor, rules, include, exclude)
       IN  /\ cursor' = r.cursor
           /\ Observe(Observed("rules", "", include, exclude, r.result, "",
                               r.linked, r.skipped))
    /\ UNCHANGED <<docs, rules, files, settings, answers, clock, calls, writes,
                   devmd, procs, job>>

NextRules ==
    \E include \in IncludeChoices, exclude \in ExcludeChoices :
        SetupRules(include, exclude)

SpecRules == InitRules /\ [][NextRules]_vars

----------------------------------------------------------------------------
(* The metadata store run on its own.                                      *)

InitSettings ==
    /\ docs = TRUE
    /\ rules = AbsentDir
    /\ cursor = NoCursor
    /\ files = [f \in HeaderFiles |-> AbsentFile]
    /\ settings \in SettingsStates
    /\ answers \in AnswersStates
    /\ devmd = docs
    /\ job = IdleJob
    /\ procs = NoProcs
    /\ InitObservation

\* one call _update_speculate_settings(project_root)
UpdateSettings(ver) ==
    /\ clock < MaxClock
    /\ clock' = clock + 1
    /\ LET r == UpdateSpeculateSettings(settings, answers, IsoFormat(clock'), ver)
       IN  /\ settings' = r.settings
           /\ Observe(WithLookup(Observed("settings", "", NoList, NoList,
                                           r.result, "", 0, 0), ver))
    /\ UNCHANGED <<docs, rules, cursor, files, answers, calls, writes, devmd, procs, job>>

NextSettings == \E ver \in VersionLookups : UpdateSettings(ver)

SpecSettings == InitSettings /\ [][NextSettings]_vars

----------------------------------------------------------------------------
(* The writes of the header files and of the settings file, step by step.  *)
(* The injector and the store write through atomic_output_file: the text   *)
(* goes to a temporary file next to the destination, which is renamed over *)
(* the destination when the with-block is left.  The process may crash     *)
(* between any two steps.                                                  *)

\* the header files and the settings file the writes start from
WriteFileStates == {AbsentFile, File(<<"#">>), File(SPECULATE_MARKER)}
WriteSettingsStates ==
    {AbsentYaml, ScalarYaml, InvalidYaml,
     MapYaml(<<<<"x", "y">>, <<"last_update", "2024-12-31T00:00:00+00:00">>>>)}

InitWrite ==
    /\ docs = TRUE
    /\ rules = AbsentDir
    /\ cursor = NoCursor
    /\ files \in [HeaderFiles -> WriteFileStates]
    /\ settings \in WriteSettingsStates
    /\ answers = AbsentYaml
    /\ devmd = docs
    /\ job = IdleJob
    /\ procs = NoProcs
    /\ InitObservation

\* no with-block is open: none was entered yet, or the last one was left,
\* or the process died in it
Resting == job.pc \in {"idle", "done", "crashed"}

\* the number of calls of the injector and of the store so far
Begun == calls["CLAUDE.md"] + calls["AGENTS.md"] + clock

\* with atomic_output_file(path) as temp_path: the write of payload to
\* target begins, nothing is on disk yet
Entered(target, payload) ==
    [pc |-> "writing", target |-> target, payload |-> payload, written |-> 0,
     temp |-> FALSE]

\* the size of the pieces a text reaches the disk in
ChunkSize(payload) == (Len(payload) + MaxChunks - 1) \div MaxChunks

\* the lengths the file being written can have on disk after written units
Cuts(payload, written) ==
    {n \in (written + 1)..Len(payload) :
        n = Len(payload) \/ n % ChunkSize(payload) = 0}

\* a variant of the write that writes the text to the destination
WriteTextToDestination(j, n) ==
    [to |-> "dest", content |-> SubSeq(j.payload, 1, n)]

\* Path(temp_path).write_text(...) when n units have reached the disk: the
\* file written is the temporary one
WriteText(j, n) == [to |-> "temp", content |-> SubSeq(j.payload, 1, n)]

\* the destination of job j holding the units content
Replaced(j, content) ==
    /\ files' = IF j.target \in HeaderFiles
                THEN [files EXCEPT ![j.target] = File(content)]
                ELSE files
    /\ settings' = IF j.target = "settings" THEN MapYaml(content)
                   ELSE settings

\* _ensure_speculate_header(path) up to the with-block
BeginHeader(path) ==
    /\ Resting
    /\ Begun < MaxCalls
    /\ LET r == EnsureSpeculateHeader(files[path])
       IN  /\ job' = IF r.wrote THEN Entered(path, r.file.content)
                     ELSE IdleJob
           /\ Observe(Observed("header", path, NoList, NoList, "ok",
                               r.action, 0, 0))
    /\ calls' = [calls EXCEPT ![path] = @ + 1]
    /\ UNCHANGED <<docs, rules, cursor, files, settings, answers, clock,
                   writes, devmd, procs>>

\* _update_speculate_settings(project_root) up to the with-block
BeginSettings(ver) ==
    /\ Resting
    /\ Begun < MaxCalls
    /\ clock' = clock + 1
    /\ LET r == UpdateSpeculateSettings(settings, answers, IsoFormat(clock'), ver)
       IN  /\ job' = IF r.result = "ok"
                     THEN Entered("settings", r.settings.pairs)
                     ELSE IdleJob
           /\ Observe(WithLookup(Observed("settings", "", NoList, NoList,
                                           r.result, "", 0, 0), ver))
    /\ UNCHANGED <<docs, rules, cursor, files, settings, answers, calls,
                   writes, devmd, procs>>

\* write_text in progress: the file written grows to n units
WriteChunk ==
    /\ job.pc = "writing"
    /\ \E n \in Cuts(job.payload, job.written) :
          LET w == WriteText(job, n)
          IN  /\ job' = [job EXCEPT !.written = n,
                                    !.temp = @ \/ w.to = "temp",
                                    !.pc = IF n = Len(job.payload)
                                           THEN "written" ELSE "writing"]
              /\ IF w.to = "dest" THEN Replaced(job, w.content)
                 ELSE UNCHANGED <<files, settings>>
    /\ UNCHANGED <<docs, rules, cursor, answers, clock, calls, writes, devmd, procs,
                   orig, pre, last, prev>>

\* leaving the with-block: the temporary file is renamed over the
\* destination
Rename ==
    /\ job.pc = "written"
    /\ IF job.temp THEN Replaced(job, job.payload)
       ELSE UNCHANGED <<files, settings>>
    /\ job' = [job EXCEPT !.pc = "done", !.temp = FALSE]
    /\ writes' = [f \in HeaderFiles |->
                     writes[f] + (IF f = job.target THEN 1 ELSE 0)]
    /\ UNCHANGED <<docs, rules, cursor, answers, clock, calls, devmd, procs, orig,
                   pre, last, prev>>

\* the process dies inside the with-block; what is on disk stays
Crash ==
    /\ job.pc \in {"writing", "written"}
    /\ job' = [job EXCEPT !.pc = "crashed"]
    /\ UNCHANGED <<docs, rules, cursor, files, settings, answers, clock,
                   calls, writes, devmd, procs, orig, pre, last, prev>>

NextWrite ==
    \/ \E path \in HeaderFiles : BeginHeader(path)
    \/ \E ver \in VersionLookups : BeginSettings(ver)
    \/ WriteChunk
    \/ Rename
    \/ Crash

SpecWrite == InitWrite /\ [][NextWrite]_vars

----------------------------------------------------------------------------
(* The pattern matcher called on its own.                                  *)

\* the file names the matcher is called with
MatchNames ==
    {<<"a">> \o MD, <<"a", "b">> \o MD, <<"b">> \o MD, <<"a">>,
     <<"a">> \o MDC, MD}

\* the patterns of the include and exclude lists
MatchPatterns ==
    {<<"*">>, <<"*", "*">>, <<"a", "*">>, <<"*">> \o MD,
     <<"a", "*", "*">> \o MD, <<"a">> \o MD, <<"?">> \o MD, <<"a">>,
     <<"*", "*", "/", "*">> \o MD}

\* the optional lists: None, or a list of at most MaxPatterns patterns
MatchLists ==
    {NoList} \cup {List(q) : q \in SeqsUpTo(MatchPatterns, MaxPatterns)}

\* bool as Python prints it
Bool(b) == IF b THEN "True" ELSE "False"

\* a call _matches_patterns(filename, include, exclude) about to be made
Pending(filename, include, exclude) ==
    WithName(Observed("call", "", include, exclude, "", "", 0, 0), filename)

InitMatch ==
    /\ docs = TRUE
    /\ rules = AbsentDir
    /\ cursor = NoCursor
    /\ files = [f \in HeaderFiles |-> AbsentFile]
    /\ settings = AbsentYaml
    /\ answers = AbsentYaml
    /\ devmd = docs
    /\ job = IdleJob
    /\ procs = NoProcs
    /\ clock = 0
    /\ calls = [f \in HeaderFiles |-> 0]
    /\ writes = [f \in HeaderFiles |-> 0]
    /\ orig = Snapshot
    /\ pre = Snapshot
    /\ prev = NoOp
    /\ \E filename \in MatchNames, include \in MatchLists,
          exclude \in MatchLists :
           last = Pending(filename, include, exclude)

\* the pending call returns
Match ==
    /\ last.op = "call"
    /\ last' = [last EXCEPT
                   !.op = "match",
                   !.result = Bool(MatchesPatterns(last.name, last.include,
                                                   last.exclude))]
    /\ UNCHANGED <<docs, rules, cursor, files, settings, answers, clock,
                   calls, writes, devmd, procs, job, orig, pre, prev>>

NextMatch == Match

SpecMatch == InitMatch /\ [][NextMatch]_vars

----------------------------------------------------------------------------
(* The install command.                                                    *)

\* the project trees install is started in: without docs/ there is no
\* rules directory
InstallTrees ==
    {[docs |-> FALSE, rules |-> AbsentDir]} \cup
    {[docs |-> TRUE, rules |-> r] :
        r \in {AbsentDir,
               [exists |-> TRUE, files |-> {<<"a">> \o MD}],
               [exists |-> TRUE,
                files |-> {<<"a">> \o MD, <<"b", "-", "x">> \o MD}]}}

InstallCursorStates ==
    {NoCursor} \cup
    {[exists |-> TRUE, entries |-> e] :
        e \in {[n \in {<<"a">> \o MDC} |->
                    Symlink(RelativeTarget(<<"a">> \o MD))],
               [n \in {<<"b", "-", "x">> \o MDC} |-> Directory]}}

\* the pairs (CLAUDE.md, AGENTS.md) install is started with, each file in
\* one of the InstallFileStates
InstallFilePairs ==
    {p \in InstallFileStates \X InstallFileStates :
        \/ p[1] = AbsentFile /\ (p[2] = AbsentFile \/ p[2] = File(<<"#">>))
        \/ p[1] = File(<<"#">>) /\ MarkerTwice(p[2])
        \/ MarkerBelow(p[1]) /\ p[2] = File(<<"#">>)}

InstallSettingsStates ==
    {AbsentYaml, InvalidYaml, MapYaml(<<<<"x", "y">>>>)}

InstallAnswersStates ==
    {AbsentYaml,
     MapYaml(<<<<"_commit", "v1.2.3">>, <<"_src_path", "gh:test/repo">>>>)}

\* the include pattern install's help gives as the default: "**/*.md"
AllDocsPattern == <<"*", "*", "/", "*">> \o MD

\* the (include, exclude) arguments install is run with
InstallFilters ==
    {<<NoList, NoList>>, <<List(<<<<"b", "-", "*">>>>), NoList>>,
     <<NoList, List(<<<<"a", "*">>>>)>>, <<List(<<AllDocsPattern>>), NoList>>}

Init ==
    /\ \E t \in InstallTrees : docs = t.docs /\ rules = t.rules
    /\ cursor \in InstallCursorStates
    /\ \E p \in InstallFilePairs :
           files = [f \in HeaderFiles |->
                       IF f = "CLAUDE.md" THEN p[1] ELSE p[2]]
    /\ settings \in InstallSettingsStates
    /\ answers \in InstallAnswersStates
    /\ devmd = docs
    /\ job = IdleJob
    /\ procs = NoProcs
    /\ InitObservation

\* the number of install runs so far
Runs == clock

\* the steps of install after the docs check, in the order of the code
InstallSteps == <<"settings", "CLAUDE.md", "AGENTS.md", "rules">>

\* the run of install that changes nothing: the outcome of the docs check
\* failing, and of the first step raising
Aborted(p, result, action, steps) ==
    [docs |-> p.docs, devmd |-> p.devmd, rules |-> p.rules,
     answers |-> p.answers,
     settings |-> p.settings, files |-> p.files, cursor |-> p.cursor,
     wrote |-> [f \in HeaderFiles |-> FALSE], result |-> result,
     action |-> action, steps |-> steps, linked |-> 0, skipped |-> 0]

\* a variant of the completed run whose projector moves the rule files
\* away instead of linking them
CompletedMovesRules(p, s, h1, h2, r) ==
    [docs |-> p.docs, devmd |-> p.devmd,
     rules |-> [p.rules EXCEPT !.files = {}], answers |-> p.answers,
     settings |-> s.settings,
     files |-> [f \in HeaderFiles |->
                   IF f = "CLAUDE.md" THEN h1.file ELSE h2.file],
     cursor |-> r.cursor,
     wrote |-> [f \in HeaderFiles |->
                   IF f = "CLAUDE.md" THEN h1.wrote ELSE h2.wrote],
     result |-> IF r.result = "raised" THEN "raised" ELSE "ok",
     action |-> IF r.result = "raised" THEN "rules" ELSE "",
     steps |-> InstallSteps, linked |-> r.linked, skipped |-> r.skipped]

\* the run of install in project p that went through all four steps: docs/
\* and the answers file are what they were
Completed(p, s, h1, h2, r) ==
    [docs |-> p.docs, devmd |-> p.devmd, rules |-> p.rules,
     answers |-> p.answers,
     settings |-> s.settings,
     files |-> [f \in HeaderFiles |->
                   IF f = "CLAUDE.md" THEN h1.file ELSE h2.file],
     cursor |-> r.cursor,
     wrote |-> [f \in HeaderFiles |->
                   IF f = "CLAUDE.md" THEN h1.wrote ELSE h2.wrote],
     result |-> IF r.result = "raised" THEN "raised" ELSE "ok",
     action |-> IF r.result = "raised" THEN "rules" ELSE "",
     steps |-> InstallSteps, linked |-> r.linked, skipped |-> r.skipped]

\* a variant of install that checks for docs/ after its four steps
InstallRunChecksDocsLast(p, include, exclude, now, ver) ==
    LET s == UpdateSpeculateSettings(p.settings, p.answers, now, ver)
        h1 == EnsureSpeculateHeader(p.files["CLAUDE.md"])
        h2 == EnsureSpeculateHeader(p.files["AGENTS.md"])
        r == SetupCursorRules(p.cursor, p.rules, include, exclude)
    IN  IF s.result = "raised"
        THEN Aborted(p, "raised", "settings", <<"settings">>)
        ELSE IF ~p.docs
             THEN [Completed(p, s, h1, h2, r) EXCEPT !.result = "exit1",
                                                  !.action = "docs"]
        ELSE Completed(p, s, h1, h2, r)

\* a variant of install that undoes what its steps did when a step raises
InstallRunRollsBack(p, include, exclude, now, ver) ==
    IF ~p.docs THEN Aborted(p, "exit1", "docs", <<>>)
    ELSE LET s == UpdateSpeculateSettings(p.settings, p.answers, now, ver)
             h1 == EnsureSpeculateHeader(p.files["CLAUDE.md"])
             h2 == EnsureSpeculateHeader(p.files["AGENTS.md"])
             r == SetupCursorRules(p.cursor, p.rules, include, exclude)
         IN  IF s.result = "raised"
             THEN Aborted(p, "raised", "settings", <<"settings">>)
             ELSE IF r.result = "raised"
                  THEN Aborted(p, "raised", "rules", InstallSteps)
             ELSE Completed(p, s, h1, h2, r)

\* install(include, exclude) in the project p, at time now: without docs/
\* it exits with status 1; otherwise the four steps run in order, and a
\* step that raises ends the run with what the earlier steps did left in
\* place
InstallRun(p, include, exclude, now, ver) ==
    IF ~p.docs THEN Aborted(p, "exit1", "docs", <<>>)
    ELSE LET s == UpdateSpeculateSettings(p.settings, p.answers, now, ver)
             h1 == EnsureSpeculateHeader(p.files["CLAUDE.md"])
             h2 == EnsureSpeculateHeader(p.files["AGENTS.md"])
             r == SetupCursorRules(p.cursor, p.rules, include, exclude)
         IN  IF s.result = "raised"
             THEN Aborted(p, "raised", "settings", <<"settings">>)
             ELSE Completed(p, s, h1, h2, r)

\* one run of install(include, exclude)
Install(include, exclude, ver) ==
    /\ Runs < MaxRuns
    /\ clock' = clock + 1
    /\ UNCHANGED <<procs, job>>
    /\ LET r == InstallRun(Snapshot, include, exclude, IsoFormat(clock'), ver)
           ran == {r.steps[i] : i \in DOMAIN r.steps}
       IN  /\ docs' = r.docs
           /\ devmd' = r.devmd
           /\ rules' = r.rules
           /\ answers' = r.answers
           /\ settings' = r.settings
           /\ files' = r.files
           /\ cursor' = r.cursor
           /\ calls' = [f \in HeaderFiles |->
                           calls[f] + (IF f \in ran THEN 1 ELSE 0)]
           /\ writes' = [f \in HeaderFiles |->
                            writes[f] + (IF r.wrote[f] THEN 1 ELSE 0)]
           /\ Observe(WithSteps(WithLookup(
                  Observed("install", "", include, exclude, r.result,
                           r.action, r.linked, r.skipped), ver), r.steps))

Next ==
    \E filter \in InstallFilters, ver \in VersionLookups :
        Install(filter[1], filter[2], ver)

Spec == Init /\ [][Next]_vars

----------------------------------------------------------------------------
(* The status command.  It reads the project and reports; a report is the  *)
(* sequence of the lines printed, each <<kind, subject>>.                  *)

\* the lines status prints for the tool configs (lines 268-277)
ToolConfigLines(p) ==
    << <<IF p.files["CLAUDE.md"].exists THEN "success" ELSE "info",
         "CLAUDE.md">>,
       <<IF p.files["AGENTS.md"].exists THEN "success" ELSE "info",
         "AGENTS.md">>,
       <<IF p.cursor.exists THEN "success" ELSE "info", ".cursor/rules/">> >>

\* status() in the project p: [result, report]; result is "ok" (returns),
\* "exit1" (SystemExit(1)) or "raised" (a YAML file does not parse)
StatusRun(p) ==
    LET answersLine ==
            <<IF p.answers.kind # "absent" THEN "success" ELSE "missing",
              ".copier-answers.yml">>
        settingsLine ==
            <<IF p.settings.kind # "absent" THEN "success" ELSE "info",
              ".speculate/settings.yml">>
        docsLine == <<IF p.docs THEN "success" ELSE "missing", "docs/">>
        devLine ==
            <<IF p.devmd THEN "success" ELSE "error", "docs/development.md">>
        has_errors == ~p.devmd
    IN  IF p.answers.kind # "absent" /\ ~LoadYaml(p.answers).ok
        THEN [result |-> "raised", report |-> <<>>]
        ELSE IF p.settings.kind # "absent" /\ ~LoadYaml(p.settings).ok
             THEN [result |-> "raised", report |-> <<answersLine>>]
        ELSE [result |-> IF has_errors THEN "exit1" ELSE "ok",
              report |-> <<answersLine, settingsLine, docsLine, devLine>>
                         \o ToolConfigLines(p)]

\* the projects status is run in: docs/development.md is there only if
\* docs/ is
StatusTrees ==
    {t \in [docs : BOOLEAN, devmd : BOOLEAN] : t.devmd => t.docs}

StatusSettingsStates ==
    {AbsentYaml, InvalidYaml,
     MapYaml(<<<<"last_cli_version", "0.1.0">>,
               <<"last_update", "2024-12-31T00:00:00+00:00">>>>)}

StatusFileStates == {AbsentFile, File(SPECULATE_MARKER)}

StatusCursorStates ==
    {NoCursor, [exists |-> TRUE, entries |-> NoCursor.entries]}

InitStatus ==
    /\ \E t \in StatusTrees : docs = t.docs /\ devmd = t.devmd
    /\ rules = AbsentDir
    /\ cursor \in StatusCursorStates
    /\ files \in [HeaderFiles -> StatusFileStates]
    /\ settings \in StatusSettingsStates
    /\ answers \in AnswersStates
    /\ job = IdleJob
    /\ procs = NoProcs
    /\ InitObservation

\* one run of status()
Status ==
    /\ LET r == StatusRun(Snapshot)
       IN  Observe(WithSteps(Observed("status", "", NoList, NoList, r.result,
                                      "", 0, 0), r.report))
    /\ UNCHANGED <<docs, rules, cursor, files, settings, answers, clock,
                   calls, writes, devmd, procs, job>>

NextStatus == Status

SpecStatus == InitStatus /\ [][NextStatus]_vars

----------------------------------------------------------------------------
(* Concurrent runs.  Two processes run install, or the header injector, on *)
(* the same project at the same time; a process is [cmd, pc, locals] and   *)
(* one step is one access to the file system, so that the steps of the two *)
(* processes interleave in every order.  A process ends in "done" or, when *)
(* a call raised, in "failed".                                              *)

\* a process at the start of cmd, which is "install" or "header"
Started(cmd, path, include, exclude, ver) ==
    [cmd |-> cmd, pc |-> IF cmd = "install" THEN "docs" ELSE "h_exists",
     path |-> path, present |-> FALSE, text |-> <<>>, payload |-> <<>>,
     todo |-> <<>>, include |-> include, exclude |-> exclude, ver |-> ver]

Procs == DOMAIN procs

\* process p has returned or raised
Terminal(p) == procs[p].pc \in {"done", "failed"}

\* the shared variables a step of a process never touches
RaceFrame == UNCHANGED <<docs, rules, answers, devmd, job, orig, pre, last, prev>>

\* if not docs_path.exists(): raise SystemExit(1)
CheckDocs(p) ==
    /\ procs[p].pc = "docs"
    /\ procs' = [procs EXCEPT ![p].pc = IF docs THEN "s_read" ELSE "failed"]
    /\ UNCHANGED <<cursor, files, settings, clock, calls, writes>>
    /\ RaceFrame

\* _update_speculate_settings up to the with-block: the settings and the
\* answers are loaded and the new mapping is built
ReadSettings(p) ==
    /\ procs[p].pc = "s_read"
    /\ clock' = clock + 1
    /\ LET r == UpdateSpeculateSettings(settings, answers, IsoFormat(clock'),
                                        procs[p].ver)
       IN  procs' = [procs EXCEPT
                        ![p].pc = IF r.result = "ok" THEN "s_write"
                                  ELSE "failed",
                        ![p].payload = IF r.result = "ok"
                                       THEN r.settings.pairs ELSE <<>>]
    /\ UNCHANGED <<cursor, files, settings, calls, writes>>
    /\ RaceFrame

\* the with-block of _update_speculate_settings: the dump replaces the
\* settings file
WriteSettings(p) ==
    /\ procs[p].pc = "s_write"
    /\ settings' = MapYaml(procs[p].payload)
    /\ procs' = [procs EXCEPT ![p].pc = "h_exists", ![p].path = "CLAUDE.md"]
    /\ UNCHANGED <<cursor, files, clock, calls, writes>>
    /\ RaceFrame

\* the process after the injector returned: the caller goes on with the
\* next header file, then with the projector
AfterHeader(proc) ==
    IF proc.cmd = "header" THEN [proc EXCEPT !.pc = "done"]
    ELSE IF proc.path = "CLAUDE.md"
         THEN [proc EXCEPT !.pc = "h_exists", !.path = "AGENTS.md"]
    ELSE [proc EXCEPT !.pc = "r_list"]

\* if path.exists():
HeaderExists(p) ==
    /\ procs[p].pc = "h_exists"
    /\ procs' = [procs EXCEPT ![p].pc = "h_read",
                              ![p].present = files[procs[p].path].exists]
    /\ calls' = [calls EXCEPT ![procs[p].path] = @ + 1]
    /\ UNCHANGED <<cursor, files, settings, clock, writes>>
    /\ RaceFrame

\* content = path.read_text() and the choice of new_content; a file found
\* absent is not read
HeaderRead(p) ==
    /\ procs[p].pc = "h_read"
    /\ LET proc == procs[p]
           r == EnsureSpeculateHeader(IF proc.present THEN files[proc.path]
                                      ELSE AbsentFile)
       IN  procs' = [procs EXCEPT
                        ![p] = IF r.wrote
                               THEN [proc EXCEPT !.pc = "h_write",
                                                 !.text = r.file.content]
                               ELSE AfterHeader(proc)]
    /\ UNCHANGED <<cursor, files, settings, clock, calls, writes>>
    /\ RaceFrame

\* the with-block of _ensure_speculate_header: new_content replaces the
\* file
HeaderWrite(p) ==
    /\ procs[p].pc = "h_write"
    /\ files' = [files EXCEPT ![procs[p].path] = File(procs[p].text)]
    /\ writes' = [writes EXCEPT ![procs[p].path] = @ + 1]
    /\ procs' = [procs EXCEPT ![p] = AfterHeader([@ EXCEPT !.text = <<>>])]
    /\ UNCHANGED <<cursor, settings, clock, calls>>
    /\ RaceFrame

\* the rule files of todo from the first one the filter accepts
RECURSIVE NextToLink(_, _, _)
NextToLink(todo, include, exclude) ==
    IF todo = <<>> THEN <<>>
    ELSE IF MatchesPatterns(Head(todo), include, exclude) THEN todo
    ELSE NextToLink(Tail(todo), include, exclude)

\* the projector with the rule files todo left: it goes on with the next
\* file the filter accepts, and returns when there is none
LoopOn(proc, todo) ==
    LET rest == NextToLink(todo, proc.include, proc.exclude)
    IN  [proc EXCEPT !.todo = rest,
                     !.pc = IF rest = <<>> THEN "done" ELSE "r_check"]

\* _setup_cursor_rules up to its loop: the link directory is made, the
\* rules directory is looked for and listed
ListRules(p) ==
    /\ procs[p].pc = "r_list"
    /\ cursor' = [cursor EXCEPT !.exists = TRUE]
    /\ procs' = [procs EXCEPT
                    ![p] = IF ~rules.exists THEN [@ EXCEPT !.pc = "done"]
                           ELSE LoopOn(@, Sorted(Glob(rules)))]
    /\ UNCHANGED <<files, settings, clock, calls, writes>>
    /\ RaceFrame

\* if link_path.exists() or link_path.is_symlink():
CheckLink(p) ==
    /\ procs[p].pc = "r_check"
    /\ LET found == LinkName(Head(procs[p].todo)) \in DOMAIN cursor.entries
       IN  procs' = [procs EXCEPT ![p].present = found,
                                  ![p].pc = IF found THEN "r_unlink"
                                            ELSE "r_link"]
    /\ UNCHANGED <<cursor, files, settings, clock, calls, writes>>
    /\ RaceFrame

\* link_path.unlink(): raises when the entry is gone, and on a directory
UnlinkStep(p) ==
    /\ procs[p].pc = "r_unlink"
    /\ LET link_name == LinkName(Head(procs[p].todo))
           gone == link_name \notin DOMAIN cursor.entries
       IN  IF gone \/ cursor.entries[link_name].kind = "dir"
           THEN /\ procs' = [procs EXCEPT ![p].pc = "failed"]
                /\ UNCHANGED cursor
           ELSE /\ procs' = [procs EXCEPT ![p].pc = "r_link"]
                /\ cursor' = [cursor EXCEPT
                                 !.entries = Unlink(@, link_name)]
    /\ UNCHANGED <<files, settings, clock, calls, writes>>
    /\ RaceFrame

\* link_path.symlink_to(relative_target): raises when there is an entry
LinkStep(p) ==
    /\ procs[p].pc = "r_link"
    /\ LET rule_file == Head(procs[p].todo)
           link_name == LinkName(rule_file)
       IN  IF link_name \in DOMAIN cursor.entries
           THEN /\ procs' = [procs EXCEPT ![p].pc = "failed"]
                /\ UNCHANGED cursor
           ELSE /\ procs' = [procs EXCEPT
                                ![p] = LoopOn(@, Tail(@.todo))]
                /\ cursor' = [cursor EXCEPT
                                 !.entries = SymlinkTo(@, link_name,
                                                 RelativeTarget(rule_file))]
    /\ UNCHANGED <<files, settings, clock, calls, writes>>
    /\ RaceFrame

----------------------------------------------------------------------------
(* Two header injections on the same file at the same time.                *)

\* the files an injection finds without the marker: absent, or any text of
\* at most MaxPieces pieces that holds none
UnmarkedFileStates ==
    {f \in HeaderFileStates :
        f.exists => ~Contains(f.content, SPECULATE_MARKER)}

InitInject ==
    /\ docs = TRUE
    /\ rules = AbsentDir
    /\ cursor = NoCursor
    /\ \E path \in HeaderFiles, f \in UnmarkedFileStates :
          /\ files = [g \in HeaderFiles |-> IF g = path THEN f ELSE AbsentFile]
          /\ procs = [p \in 1..2 |->
                         Started("header", path, NoList, NoList, NoLookup)]
    /\ settings = AbsentYaml
    /\ answers = AbsentYaml
    /\ devmd = docs
    /\ job = IdleJob
    /\ InitObservation

NextInject ==
    \E p \in Procs :
        \/ HeaderExists(p)
        \/ HeaderRead(p)
        \/ HeaderWrite(p)

SpecInject == InitInject /\ [][NextInject]_vars

----------------------------------------------------------------------------
(* Two installs on the same project at the same time, and one more install *)
(* alone when both have ended.                                              *)

RaceTrees ==
    {[exists |-> TRUE, files |-> {<<"a">> \o MD}],
     [exists |-> TRUE, files |-> {<<"a">> \o MD, <<"b", "-", "x">> \o MD}]}

RaceCursorStates ==
    {NoCursor,
     [exists |-> TRUE,
      entries |-> [n \in {<<"a">> \o MDC} |-> Symlink(OtherTarget)]]}

RaceFilePairs ==
    {<<AbsentFile, AbsentFile>>, <<File(<<"#">>), AbsentFile>>}

RaceFilters == {<<NoList, NoList>>, <<List(<<<<"b", "-", "*">>>>), NoList>>}

InitRace ==
    /\ docs = TRUE
    /\ rules \in RaceTrees
    /\ cursor \in RaceCursorStates
    /\ \E pair \in RaceFilePairs :
           files = [f \in HeaderFiles |->
                       IF f = "CLAUDE.md" THEN pair[1] ELSE pair[2]]
    /\ settings \in InstallSettingsStates
    /\ answers = AbsentYaml
    /\ \E ver \in VersionLookups, f1 \in RaceFilters, f2 \in RaceFilters :
           procs = [p \in 1..2 |->
                       Started("install", "",
                               IF p = 1 THEN f1[1] ELSE f2[1],
                               IF p = 1 THEN f1[2] ELSE f2[2], ver)]
    /\ devmd = docs
    /\ job = IdleJob
    /\ InitObservation

\* one run of install(include, exclude) alone, after the two concurrent
\* runs have ended
InstallAlone(include, exclude) ==
    /\ \A p \in Procs : Terminal(p)
    /\ last.op = "none"
    /\ clock' = clock + 1
    /\ UNCHANGED <<procs, job>>
    /\ LET ver == procs[1].ver
           r == InstallRun(Snapshot, include, exclude, IsoFormat(clock'), ver)
           ran == {r.steps[i] : i \in DOMAIN r.steps}
       IN  /\ docs' = r.docs
           /\ devmd' = r.devmd
           /\ rules' = r.rules
           /\ answers' = r.answers
           /\ settings' = r.settings
           /\ files' = r.files
           /\ cursor' = r.cursor
           /\ calls' = [f \in HeaderFiles |->
                           calls[f] + (IF f \in ran THEN 1 ELSE 0)]
           /\ writes' = [f \in HeaderFiles |->
                            writes[f] + (IF r.wrote[f] THEN 1 ELSE 0)]
           /\ Observe(WithSteps(WithLookup(
                  Observed("install", "", include, exclude, r.result,
                           r.action, r.linked, r.skipped), ver), r.steps))

NextRace ==
    \/ \E p \in Procs :
          \/ CheckDocs(p)
          \/ ReadSettings(p)
          \/ WriteSettings(p)
          \/ HeaderExists(p)
          \/ HeaderRead(p)
          \/ HeaderWrite(p)
          \/ ListRules(p)
          \/ CheckLink(p)
          \/ UnlinkStep(p)
          \/ LinkStep(p)
    \/ \E filter \in RaceFilters : InstallAlone(filter[1], filter[2])

SpecRace == InitRace /\ [][NextRace]_vars

----------------------------------------------------------------------------
(* The init and update commands.  Both call the template engine (copier),  *)
(* which is outside the program: what it does is an input of the run,      *)
(* either an exception or the docs/ tree and the answers file it leaves.   *)
(* init copies into the destination given to it, while the install it      *)
(* calls works on the working directory; the project of the model is the   *)
(* working directory.                                                       *)

\* what a call of the template engine can do: raise, or return having left
\* a docs/ tree (with or without rule files and development.sample.md) and
\* an answers file, or having left no docs/ at all
EngineOutcomes ==
    {[ok |-> FALSE, docs |-> FALSE, rules |-> AbsentDir, sample |-> FALSE,
      answers |-> AbsentYaml],
     [ok |-> TRUE, docs |-> TRUE,
      rules |-> [exists |-> TRUE, files |-> {<<"a">> \o MD}],
      sample |-> TRUE,
      answers |-> MapYaml(<<<<"_commit", "v1.2.3">>,
                            <<"_src_path", "gh:test/repo">>>>)],
     [ok |-> TRUE, docs |-> FALSE, rules |-> AbsentDir, sample |-> FALSE,
      answers |-> MapYaml(<<<<"_src_path", "gh:test/repo">>>>)]}

\* the destinations of init: the working directory, or another directory
\* with or without a docs/ of its own
Destinations ==
    {[here |-> TRUE, docs |-> FALSE], [here |-> FALSE, docs |-> FALSE],
     [here |-> FALSE, docs |-> TRUE]}

\* what is typed at a prompt
Responses == {"y", "n", ""}

\* the project p after the template engine wrote outcome e into it
Rendered(p, e) ==
    [p EXCEPT !.docs = p.docs \/ e.docs,
              !.rules = IF e.docs THEN e.rules ELSE p.rules,
              !.answers = e.answers]

\* shutil.copy(sample_dev_md, dev_md) if the sample exists and
\* development.md does not
WithDevelopmentMd(p, e) == [p EXCEPT !.devmd = p.devmd \/ e.sample]

\* a run of a command: what the run did to the project, as a run of
\* install, and the phases it went through
Command(run, phases) == [run |-> run, phases |-> phases]

\* a variant of init that runs install before the template engine
InitRunInstallsFirst(p, dest, overwrite, reinit, proceed, engine, now, ver) ==
    LET found == IF dest.here THEN p.docs ELSE dest.docs
        r == InstallRun(p, NoList, NoList, now, ver)
    IN  IF found /\ ~overwrite /\ reinit # "y"
        THEN Command(Aborted(p, "exit0", "prompt", <<>>), <<>>)
        ELSE IF ~overwrite /\ proceed = "n"
             THEN Command(Aborted(p, "exit0", "prompt", <<>>), <<>>)
        ELSE IF r.result # "ok" THEN Command(r, <<"install">>)
        ELSE IF ~engine.ok
             THEN Command([r EXCEPT !.result = "raised", !.action = "engine"],
                          <<"install", "engine">>)
        ELSE Command(r, <<"install", "engine">>)

\* init(destination, overwrite) in the working directory p: the two
\* prompts, copier.run_copy, the copy of development.md, then install()
InitRun(p, dest, overwrite, reinit, proceed, engine, now, ver) ==
    LET found == IF dest.here THEN p.docs ELSE dest.docs
        copied == IF dest.here
                  THEN WithDevelopmentMd(Rendered(p, engine), engine)
                  ELSE p
    IN  IF found /\ ~overwrite /\ reinit # "y"
        THEN Command(Aborted(p, "exit0", "prompt", <<>>), <<>>)
        ELSE IF ~overwrite /\ proceed = "n"
             THEN Command(Aborted(p, "exit0", "prompt", <<>>), <<>>)
        ELSE IF ~engine.ok
             THEN Command(Aborted(p, "raised", "engine", <<>>), <<"engine">>)
        ELSE Command(InstallRun(copied, NoList, NoList, now, ver),
                     <<"engine", "install">>)

\* update() in the working directory p: without an answers file it exits
\* with status 1; otherwise copier.run_update, then install()
UpdateRun(p, engine, now, ver) ==
    IF p.answers.kind = "absent"
    THEN Command(Aborted(p, "exit1", "answers", <<>>), <<>>)
    ELSE IF ~engine.ok
         THEN Command(Aborted(p, "raised", "engine", <<>>), <<"engine">>)
    ELSE Command(InstallRun(Rendered(p, engine), NoList, NoList, now, ver),
                 <<"engine", "install">>)

CommandTrees ==
    {[docs |-> FALSE, rules |-> AbsentDir],
     [docs |-> TRUE, rules |-> [exists |-> TRUE, files |-> {<<"a">> \o MD}]]}

InitCommands ==
    /\ \E t \in CommandTrees : docs = t.docs /\ rules = t.rules
    /\ cursor = NoCursor
    /\ \E pair \in RaceFilePairs :
           files = [f \in HeaderFiles |->
                       IF f = "CLAUDE.md" THEN pair[1] ELSE pair[2]]
    /\ settings \in {AbsentYaml, InvalidYaml}
    /\ answers \in InstallAnswersStates
    /\ devmd = docs
    /\ job = IdleJob
    /\ procs = NoProcs
    /\ InitObservation

\* the version the installed package reports
InstalledVersion == [ok |-> TRUE, value |-> "0.1.0"]

\* the project and the counters after the run c of a command
Ran(op, c) ==
    LET r == c.run
        ran == {r.steps[i] : i \in DOMAIN r.steps}
    IN  /\ docs' = r.docs
        /\ devmd' = r.devmd
        /\ rules' = r.rules
        /\ answers' = r.answers
        /\ settings' = r.settings
        /\ files' = r.files
        /\ cursor' = r.cursor
        /\ calls' = [f \in HeaderFiles |->
                        calls[f] + (IF f \in ran THEN 1 ELSE 0)]
        /\ writes' = [f \in HeaderFiles |->
                         writes[f] + (IF r.wrote[f] THEN 1 ELSE 0)]
        /\ Observe(WithSteps(WithLookup(
               Observed(op, "", NoList, NoList, r.result, r.action,
                        r.linked, r.skipped), InstalledVersion), c.phases))

\* one run of init
InitCommand(dest, overwrite, reinit, proceed, engine) ==
    /\ Runs < MaxRuns
    /\ clock' = clock + 1
    /\ UNCHANGED <<procs, job>>
    /\ Ran("init", InitRun(Snapshot, dest, overwrite, reinit, proceed,
                           engine, IsoFormat(clock'), InstalledVersion))

\* one run of update
UpdateCommand(engine) ==
    /\ Runs < MaxRuns
    /\ clock' = clock + 1
    /\ UNCHANGED <<procs, job>>
    /\ Ran("update", UpdateRun(Snapshot, engine, IsoFormat(clock'),
                               InstalledVersion))

NextCommands ==
    \/ \E dest \in Destinations, overwrite \in BOOLEAN,
          reinit \in Responses, proceed \in Responses,
          engine \in EngineOutcomes :
          InitCommand(dest, overwrite, reinit, proceed, engine)
    \/ \E engine \in EngineOutcomes : UpdateCommand(engine)

SpecCommands == InitCommands /\ [][NextCommands]_vars

----------------------------------------------------------------------------
(* Properties of the symlink projector, checked under SpecRules.           *)

\* the names of the entries of a link directory
Names(dir) == DOMAIN dir.entries

\* a source document: a file of the rules directory whose name ends in .md
IsDoc(n) == Len(n) >= Len(MD) /\ SubSeq(n, Len(n) - Len(MD) + 1, Len(n)) = MD

\* the documents of rules directory rul that pass the filter
Matching(rul, include, exclude) ==
    IF rul.exists
    THEN {d \in rul.files : IsDoc(d) /\ MatchesPatterns(d, include, exclude)}
    ELSE {}

\* {stem(d) + ".mdc" : d in D, matches(d.name, I, E)}
Qualifying(rul, include, exclude) ==
    {Stem(d) \o MDC : d \in Matching(rul, include, exclude)}

\* the last operation was a projection that returned without raising
ProjectionReturned == last.op = "rules" /\ last.result = "ok"

TwoProjections ==
    /\ prev.op = "rules" /\ prev.result = "ok"
    /\ ProjectionReturned
    /\ pre.rules = rules

\* the two filters qualify no document in common
DisjointFilters ==
    Qualifying(rules, prev.include, prev.exclude)
        \cap Qualifying(rules, last.include, last.exclude) = {}

ProjectionEnded == last.op = "rules" /\ last.result \in {"ok", "warned"}

\* entry e is a relative symlink to an existing document of the rules
\* directory
LinksToDoc(e) ==
    /\ e.kind = "symlink"
    /\ e.target.parts = <<"..", "..", "docs", "general", "agent-rules">>
    /\ rules.exists /\ e.target.name \in rules.files

----------------------------------------------------------------------------
(* Properties of the header injector, checked under SpecHeader.            *)

\* file state f holds the marker
HasMarker(f) == f.exists /\ Contains(f.content, SPECULATE_MARKER)

\* the number of occurrences of the marker in file state f
MarkerCount(f) == Count(f.content, SPECULATE_MARKER)

\* C4: for a file that starts absent or without the marker, any number of
\* calls leaves the content one call produces, with the marker in it exactly
\* once; the file is written once, and every later call reports unchanged.
C4_HeaderIdempotent ==
    \A f \in HeaderFiles :
        ~HasMarker(orig.files[f]) /\ calls[f] >= 1 =>
            /\ files[f] = EnsureSpeculateHeader(orig.files[f]).file
            /\ MarkerCount(files[f]) = 1
            /\ writes[f] = 1
            /\ calls[f] >= 2 /\ last.path = f => last.action = "Unchanged"

\* C4, witness: the injector ran three times on a file that existed
\* without the marker, and the last call reported unchanged.
C4_Witness ==
    \E f \in HeaderFiles :
        /\ orig.files[f].exists /\ ~HasMarker(orig.files[f])
        /\ orig.files[f].content # <<>>
        /\ calls[f] = 3
        /\ last.path = f /\ last.action = "Unchanged"

\* the last operation was a call of the injector on file last.path
HeaderCall == last.op = "header"

\* C6: on an existing file without the marker the injector writes the
\* header, a blank line and then the whole original content; on an absent
\* file it writes the header and a newline.
C6_HeaderContent ==
    HeaderCall =>
        LET before == pre.files[last.path]
            after == files[last.path]
        IN  /\ before.exists /\ ~HasMarker(before) =>
                /\ after.exists
                /\ after.content =
                       SPECULATE_HEADER \o <<"\n", "\n">> \o before.content
                /\ last.action = "Updated"
            /\ ~before.exists =>
                /\ after.exists
                /\ after.content = SPECULATE_HEADER \o <<"\n">>
                /\ last.action = "Created"

\* C6, witness: the injector updated a file that held two pieces of text
\* and no marker.
C6_Witness ==
    /\ HeaderCall
    /\ last.action = "Updated"
    /\ pre.files[last.path].exists
    /\ Len(pre.files[last.path].content) >= 2
    /\ ~HasMarker(pre.files[last.path])

\* C8: on an existing file that holds the marker the injector reports
\* unchanged, leaves the content as it is and does not write the file.
C8_UnchangedWhenMarked ==
    HeaderCall /\ HasMarker(pre.files[last.path]) =>
        /\ last.action = "Unchanged"
        /\ files[last.path] = pre.files[last.path]
        /\ writes[last.path] = pre.writes[last.path]

\* C8, witness: the injector ran on a file that was never written by it and
\* holds the marker below other text.
C8_Witness ==
    /\ HeaderCall
    /\ HasMarker(pre.files[last.path])
    /\ ~StartsWith(pre.files[last.path].content, SPECULATE_MARKER)
    /\ ~StartsWith(pre.files[last.path].content, SPECULATE_HEADER)
    /\ last.action = "Unchanged"

----------------------------------------------------------------------------
(* Properties of the header files after install, checked under Spec.       *)

\* the last operation was an install that ran all its steps without raising
InstallSucceeded == last.op = "install" /\ last.result = "ok"

\* C5, as claimed: after a successful install each header file holds the
\* marker exactly once, whatever it held before.
C5_MarkerExactlyOnce ==
    InstallSucceeded =>
        \A f \in HeaderFiles : files[f].exists /\ MarkerCount(files[f]) = 1

\* C5, amended: after a successful install each header file exists and
\* holds the marker: exactly once if it was absent or held no marker before
\* the install, and otherwise as often as before, the file being left as it
\* was.
C5_MarkerPresentOnceIfAdded ==
    InstallSucceeded =>
        \A f \in HeaderFiles :
            /\ files[f].exists
            /\ MarkerCount(files[f]) >= 1
            /\ ~HasMarker(pre.files[f]) => MarkerCount(files[f]) = 1
            /\ HasMarker(pre.files[f]) =>
                   MarkerCount(files[f]) = MarkerCount(pre.files[f])

\* C5, witness: a successful install found one header file holding the
\* marker twice and the other holding text without it.
C5_Witness ==
    /\ InstallSucceeded
    /\ \E f \in HeaderFiles : MarkerCount(pre.files[f]) = 2
    /\ \E f \in HeaderFiles : pre.files[f].exists /\ ~HasMarker(pre.files[f])

----------------------------------------------------------------------------
(* Properties of the metadata store, checked under SpecSettings.           *)

\* the keys the store sets
StandardKeys == {"last_update", "last_cli_version", "last_docs_version"}

\* the mapping a settings file in state f reads as (yaml.safe_load)
Record(f) == LoadYaml(f).dict

\* the last operation was a run of the store
SettingsRun == last.op = "settings"

\* C9: when the settings file started as a mapping, then after any number
\* of runs of the store every key of it other than the three standard keys
\* is still in the record, with the value it had.
C9_UnknownKeysPreserved ==
    SettingsRun /\ orig.settings.kind = "map" =>
        \A k \in DOMAIN Record(orig.settings) \ StandardKeys :
            /\ settings.kind = "map"
            /\ k \in DOMAIN Record(settings)
            /\ Record(settings)[k] = Record(orig.settings)[k]

\* C9, witness: the store ran three times, the last run writing the
\* record, on a settings file that started with the key x and with a
\* last_update of its own.
C9_Witness ==
    /\ SettingsRun /\ last.result = "ok"
    /\ clock = 3
    /\ orig.settings.kind = "map"
    /\ DOMAIN Record(orig.settings) = {"x", "last_update"}
    /\ Record(settings)["x"] = Record(orig.settings)["x"]
    /\ Record(settings)["last_update"] # Record(orig.settings)["last_update"]

\* C10, as claimed: a run of the store on a settings file that is no YAML
\* completes without raising and leaves a record with exactly the standard
\* keys.
C10_MalformedSettingsTolerated ==
    SettingsRun /\ pre.settings.kind = "invalid" =>
        /\ last.result = "ok"
        /\ settings.kind = "map"
        /\ {"last_update", "last_cli_version"} \subseteq DOMAIN Record(settings)
        /\ DOMAIN Record(settings) \subseteq StandardKeys

\* the run of the store that was the last operation wrote the record
SettingsWritten == SettingsRun /\ last.result = "ok"

\* the answers file in state a exists and is YAML
Parseable(a) == a.kind \in {"scalar", "map"}

\* settings files f and g agree on last_docs_version: both lack it or both
\* hold it with the same value
SameDocsVersion(f, g) ==
    /\ ("last_docs_version" \in DOMAIN Record(f)) =
           ("last_docs_version" \in DOMAIN Record(g))
    /\ "last_docs_version" \in DOMAIN Record(f) =>
           Record(f)["last_docs_version"] = Record(g)["last_docs_version"]

\* C11, as claimed: a run of the store changes last_docs_version only if the
\* answers file is present and parseable, the value it then stores is the
\* value of the answers file's _commit field, and without an answers file a
\* stored last_docs_version is left as it was.
C11_DocsVersionIsCommit ==
    SettingsRun =>
        /\ ~Parseable(pre.answers) => SameDocsVersion(pre.settings, settings)
        /\ last.result = "ok" /\ Parseable(pre.answers) =>
               /\ "_commit" \in DOMAIN Record(pre.answers)
               /\ "last_docs_version" \in DOMAIN Record(settings)
               /\ Record(settings)["last_docs_version"] =
                      Record(pre.answers)["_commit"]

\* C11, amended: a run of the store changes last_docs_version only if the
\* answers file is present and parseable; the value it then stores is the
\* answers file's _commit, or "unknown" when the answers file has no _commit
\* (or is no mapping); without an answers file a stored last_docs_version is
\* left as it was; an unparseable answers file makes the run raise and the
\* settings file is left as it was.
C11_DocsVersionIsCommitOrUnknown ==
    SettingsRun =>
        /\ ~Parseable(pre.answers) => SameDocsVersion(pre.settings, settings)
        /\ pre.answers.kind = "absent" /\ pre.settings.kind # "invalid" =>
               last.result = "ok"
        /\ pre.answers.kind = "invalid" =>
               last.result = "raised" /\ settings = pre.settings
        /\ last.result = "ok" /\ Parseable(pre.answers) =>
               /\ "last_docs_version" \in DOMAIN Record(settings)
               /\ Record(settings)["last_docs_version"] =
                      (IF "_commit" \in DOMAIN Record(pre.answers)
                       THEN Record(pre.answers)["_commit"] ELSE "unknown")

\* C11, witness: the store wrote the record with an answers file that has
\* no _commit, replacing the last_docs_version stored before by "unknown".
C11_Witness ==
    /\ SettingsWritten
    /\ pre.answers.kind = "map"
    /\ "_commit" \notin DOMAIN Record(pre.answers)
    /\ "last_docs_version" \in DOMAIN Record(pre.settings)
    /\ Record(pre.settings)["last_docs_version"] = "v0"
    /\ Record(settings)["last_docs_version"] = "unknown"

\* C12: after every run of the store that wrote the record, the first or a
\* later one, the record holds last_update, the time of the run, and
\* last_cli_version, the version the lookup returned or "unknown" when the
\* lookup failed.
C12_RequiredKeys ==
    SettingsWritten =>
        /\ settings.kind = "map"
        /\ {"last_update", "last_cli_version"} \subseteq DOMAIN Record(settings)
        /\ Record(settings)["last_update"] = IsoFormat(clock)
        /\ Record(settings)["last_cli_version"] =
               (IF last.ver.ok THEN last.ver.value ELSE "unknown")

\* C12, witness: a later run of the store, whose version lookup failed,
\* replaced the version an earlier run had stored.
C12_Witness ==
    /\ SettingsWritten /\ prev.op = "settings" /\ prev.result = "ok"
    /\ ~last.ver.ok /\ prev.ver.ok
    /\ Record(pre.settings)["last_cli_version"] = "0.1.0"
    /\ Record(settings)["last_cli_version"] = "unknown"

----------------------------------------------------------------------------
(* Properties of the install command, checked under Spec.                  *)

\* the last operation was a run of install
InstallRan == last.op = "install"

\* nothing install writes is different from what it was before the run
NothingWritten ==
    /\ settings = pre.settings
    /\ files = pre.files
    /\ cursor = pre.cursor
    /\ writes = pre.writes

\* C13: a run of install in a project without docs/ exits with status 1
\* before any of its steps: the settings file, the header files and the link
\* directory are after the run what they were before it.
C13_NoDocsNoMutation ==
    InstallRan /\ ~pre.docs =>
        /\ last.result = "exit1"
        /\ last.steps = <<>>
        /\ NothingWritten

\* C13, witness: install ran without docs/ in a project where every step
\* would have had something to create: no settings file, no header files,
\* no link directory.
C13_Witness ==
    /\ InstallRan /\ ~pre.docs
    /\ pre.settings.kind = "absent"
    /\ \A f \in HeaderFiles : ~pre.files[f].exists
    /\ ~pre.cursor.exists

\* the settings file holds a record with the keys every install sets
HasRecord(f) ==
    /\ f.kind = "map"
    /\ {"last_update", "last_cli_version"} \subseteq DOMAIN Record(f)

\* C14, as claimed: with docs/ present and the rules directory missing, the
\* projection raises nothing and makes no link, and the install ends in
\* success with the settings record and both header files in place.
C14_MissingRulesInstallSucceeds ==
    InstallRan /\ pre.docs /\ ~pre.rules.exists =>
        /\ last.result = "ok"
        /\ last.linked = 0
        /\ cursor.entries = pre.cursor.entries
        /\ HasRecord(settings)
        /\ \A f \in HeaderFiles : HasMarker(files[f])

\* the values of the installer version lookup and of the filter were the
\* same in the last two operations, both runs of install
SameInstallTwice ==
    /\ InstallRan /\ prev.op = "install"
    /\ last.include = prev.include /\ last.exclude = prev.exclude
    /\ last.ver = prev.ver

\* settings files f and g hold the same record but for last_update
SameButLastUpdate(f, g) ==
    /\ f.kind = g.kind
    /\ DOMAIN Record(f) = DOMAIN Record(g)
    /\ \A k \in DOMAIN Record(f) \ {"last_update"} :
           Record(f)[k] = Record(g)[k]

\* C15: when install is run twice in succession with the same include and
\* exclude lists (and the same installer), the second run leaves the link
\* directory, with every link target, and the two header files exactly as
\* the first run left them, and the settings record the same but for
\* last_update; the two runs end the same way.
C15_InstallIdempotent ==
    SameInstallTwice =>
        /\ cursor = pre.cursor
        /\ files = pre.files
        /\ SameButLastUpdate(settings, pre.settings)
        /\ last.result = prev.result

\* C15, witness: two successful installs with the same filter, the first of
\* which made a link and wrote a header, the second of which changed
\* last_update.
C15_Witness ==
    /\ SameInstallTwice /\ last.result = "ok"
    /\ Names(cursor) # Names(orig.cursor)
    /\ files # orig.files
    /\ \E n \in Names(cursor) : cursor.entries[n].kind = "symlink"
    /\ Record(settings)["last_update"] # Record(pre.settings)["last_update"]

\* the steps of the last run, as a set
StepsRun == {last.steps[i] : i \in DOMAIN last.steps}

\* C17, as claimed: once docs/ is there, every run of install attempts all
\* four steps, in the order metadata record, CLAUDE.md, AGENTS.md,
\* projection, each whatever the others did; the run ends in success unless
\* a step raised, and then in failure.
C17_AllStepsInOrder ==
    InstallRan /\ pre.docs =>
        /\ last.steps = InstallSteps
        /\ last.result \in {"ok", "raised"}
        /\ last.result = "raised" <=> last.action \in StepsRun

----------------------------------------------------------------------------
(* Properties of the writes, checked under SpecWrite.                      *)

\* a with-block was entered: a write of job.payload to job.target began
WriteBegun == job.pc # "idle"

\* the destination of the write holds what it held when the write began
\* (nothing, if it was absent then)
HoldsPrevious ==
    IF job.target = "settings" THEN settings = pre.settings
    ELSE files[job.target] = pre.files[job.target]

\* the destination of the write holds the whole new content
HoldsNew ==
    IF job.target = "settings" THEN settings = MapYaml(job.payload)
    ELSE files[job.target] = File(job.payload)

\* C16: at every point of a write of a header file or of the settings file,
\* whether the process goes on or dies there, the destination holds either
\* what it held before the write (or is absent, if it was) or the whole new
\* content: until the rename the former, after it the latter.
C16_AtomicReplace ==
    WriteBegun =>
        /\ HoldsPrevious \/ HoldsNew
        /\ job.pc \in {"writing", "written", "crashed"} => HoldsPrevious
        /\ job.pc = "done" => HoldsNew

\* C16, witness: the process died in the middle of the write of a header
\* file that existed before, with a part of the new text on disk.
C16_Witness ==
    /\ job.pc = "crashed"
    /\ job.target \in HeaderFiles
    /\ pre.files[job.target].exists
    /\ job.temp
    /\ 0 < job.written /\ job.written < Len(job.payload)

----------------------------------------------------------------------------
(* Properties of the pattern matcher, checked under SpecMatch.             *)

\* the pattern with every run of stars made one star
RECURSIVE CollapseStars(_)
CollapseStars(pat) ==
    IF Len(pat) < 2 THEN pat
    ELSE IF pat[1] = "*" /\ pat[2] = "*" THEN CollapseStars(Tail(pat))
    ELSE <<pat[1]>> \o CollapseStars(Tail(pat))

\* pattern p from position i on, with the star at position j standing for
\* g[j] characters
RECURSIVE Expand(_, _, _)
Expand(p, g, i) ==
    IF i > Len(p) THEN <<>>
    ELSE (IF p[i] = "*" THEN [j \in 1..g[i] |-> "?"] ELSE <<p[i]>>)
         \o Expand(p, g, i + 1)

\* name is q character by character, a "?" of q standing for any character
Pointwise(name, q) ==
    /\ Len(name) = Len(q)
    /\ \A j \in 1..Len(q) : q[j] = "?" \/ q[j] = name[j]

\* the whole of name is an instance of the glob pattern pat: each star
\* (single or double) stands for some characters, each "?" for one, every
\* other character for itself
GlobMatches(name, pat) ==
    LET p == CollapseStars(pat)
        stars == {i \in 1..Len(p) : p[i] = "*"}
    IN  \E g \in [stars -> 0..Len(name)] : Pointwise(name, Expand(p, g, 1))

\* some pattern of the list glob-matches name
SomeGlobMatches(name, list) ==
    \E i \in 1..Len(list.pats) : GlobMatches(name, list.pats[i])

\* the list with every pattern's runs of stars collapsed
Collapsed(list) ==
    [list EXCEPT !.pats = [i \in 1..Len(list.pats) |->
                              CollapseStars(list.pats[i])]]

\* the last operation was a call of the matcher
MatchCall == last.op = "match"

----------------------------------------------------------------------------
(* The default filter of install, checked under Spec.                      *)

\* the last operation was a run of install with include=["**/*.md"] and no
\* exclude list that went through its steps
InstalledAllDocs ==
    /\ InstallRan /\ last.steps = InstallSteps
    /\ last.include = List(<<AllDocsPattern>>)
    /\ ~last.exclude.given

\* what the run would have left in the link directory with no include list
WithoutInclude ==
    InstallRun(pre, NoList, last.exclude, IsoFormat(clock), last.ver).cursor

\* C19, as claimed: install with include=["**/*.md"] links every document
\* of the rules directory, and leaves the link set install leaves when
\* given no include list.
C19_DoubleStarIncludesAll ==
    InstalledAllDocs =>
        /\ \A d \in Glob(rules) :
               /\ LinkName(d) \in Names(cursor)
               /\ cursor.entries[LinkName(d)] = Symlink(RelativeTarget(d))
        /\ Names(cursor) = Names(WithoutInclude)

----------------------------------------------------------------------------
(* Properties of the status command, checked under SpecStatus.             *)

\* the last operation was a run of status
StatusRan == last.op = "status"

\* C20, as claimed: in a project without .copier-answers.yml a run of
\* status (one that reads its files without a parse error) exits with
\* code 1, also when docs/ and docs/development.md exist.
C20_FailsWithoutAnswers ==
    StatusRan /\ pre.answers.kind = "absent" /\ last.result # "raised" =>
        last.result = "exit1"

\* the number of lines of a full report: one for each of the seven checks
AllChecks == 4 + Len(ToolConfigLines(pre))

\* C21, as claimed: status exits with code 1 whenever docs/development.md
\* is missing, whichever other files exist, returns without error when
\* docs/development.md and .copier-answers.yml both exist, and ends either
\* way only after reporting all of its checks.
C21_ExitsAfterAllChecks ==
    StatusRan =>
        /\ ~pre.devmd => last.result = "exit1"
        /\ pre.devmd /\ pre.answers.kind # "absent" => last.result = "ok"
        /\ Len(last.steps) = AllChecks

----------------------------------------------------------------------------
(* Properties of two concurrent header injections, checked under           *)
(* SpecInject.                                                             *)

\* the file both injections are called on
Target == procs[1].path

\* both injections have returned
BothReturned == \A p \in Procs : procs[p].pc = "done"

\* C26: under any interleaving of two concurrent header injections on the
\* same file, absent or present without the marker, the file never holds
\* the marker more than once, and when both injections have returned it
\* holds the marker exactly once and is the file a single injection makes
\* of the original one.
C26_ConcurrentInjectionsOnce ==
    /\ files[Target].exists =>
           Count(files[Target].content, SPECULATE_MARKER) <= 1
    /\ BothReturned =>
           /\ files[Target].exists
           /\ Count(files[Target].content, SPECULATE_MARKER) = 1
           /\ files[Target] = EnsureSpeculateHeader(orig.files[Target]).file

\* both injections read the file before either replaced it, and both wrote
C26_Witness ==
    /\ BothReturned
    /\ writes[Target] = 2
    /\ orig.files[Target].exists

----------------------------------------------------------------------------
(* Properties of two concurrent installs, checked under SpecRace.          *)

\* the two concurrent runs have ended and the install run alone was made
InstalledAlone == last.op = "install" /\ \A p \in Procs : Terminal(p)

\* C22, as claimed: after any interleaving of two concurrent install runs,
\* one more install run alone ends in success and leaves each header file
\* with the marker exactly once, the settings record with its standard keys
\* and every key the settings file held before, and for every rule file
\* its filter accepts a link to that file.
C22_ConsistentAfterRace ==
    InstalledAlone =>
        /\ last.result = "ok"
        /\ \A f \in HeaderFiles :
              /\ files[f].exists
              /\ Count(files[f].content, SPECULATE_MARKER) = 1
        /\ settings.kind = "map"
        /\ {"last_update", "last_cli_version"} \subseteq DOMAIN Record(settings)
        /\ \A k \in DOMAIN Record(orig.settings) \ StandardKeys :
              /\ k \in DOMAIN Record(settings)
              /\ Record(settings)[k] = Record(orig.settings)[k]
        /\ \A d \in Matching(rules, last.include, last.exclude) :
              /\ LinkName(d) \in DOMAIN cursor.entries
              /\ cursor.entries[LinkName(d)] = Symlink(RelativeTarget(d))

----------------------------------------------------------------------------
(* The links of a projection, checked under SpecRules.                     *)

\* cursor_dir and rules_dir, from the project root
CursorDirParts == <<".cursor", "rules">>
RulesDirFromRoot == <<"docs", "general", "agent-rules">>

\* the directory a relative path leads to from directory base: ".." goes
\* to the parent, any other part to the child of that name
RECURSIVE Resolve(_, _)
Resolve(base, parts) ==
    IF parts = <<>> THEN base
    ELSE IF Head(parts) = ".."
         THEN Resolve(SubSeq(base, 1, Len(base) - 1), Tail(parts))
    ELSE Resolve(Append(base, Head(parts)), Tail(parts))

\* entry e of the link directory is a symlink with a relative target that
\* leads to document d of the rules directory
ResolvesTo(e, d) ==
    /\ e.kind = "symlink"
    /\ e.target.parts # <<>> /\ Head(e.target.parts) # "/"
    /\ Resolve(CursorDirParts, e.target.parts) = RulesDirFromRoot
    /\ e.target.name = d
    /\ d \in rules.files

\* C23: after a projection returns, for every document d the filter
\* accepts the entry stem(d) + ".mdc" of the link directory is the symlink
\* to ../../docs/general/agent-rules/<d>, a relative path that leads to d,
\* whatever was at that path before the run: a regular file, a symlink to
\* another target or a dangling symlink has been replaced.
C23_QualifyingLinkReplaced ==
    ProjectionReturned =>
        \A d \in Matching(rules, last.include, last.exclude) :
            /\ LinkName(d) \in Names(cursor)
            /\ cursor.entries[LinkName(d)] =
                   Symlink([parts |-> <<"..", "..", "docs", "general",
                                        "agent-rules">>, name |-> d])
            /\ ResolvesTo(cursor.entries[LinkName(d)], d)

\* C23, witness: a projection returned that linked two documents, one
\* where a regular file was, the other where a symlink to a file outside
\* the project was.
C23_Witness ==
    /\ ProjectionReturned
    /\ \E d1, d2 \in Matching(rules, last.include, last.exclude) :
          /\ LinkName(d1) \in Names(pre.cursor)
          /\ LinkName(d2) \in Names(pre.cursor)
          /\ pre.cursor.entries[LinkName(d1)] = RegularFile
          /\ pre.cursor.entries[LinkName(d2)] = Symlink(OtherTarget)
          /\ ResolvesTo(cursor.entries[LinkName(d1)], d1)
          /\ ResolvesTo(cursor.entries[LinkName(d2)], d2)

\* the *.md files of the rules directory
SourceDocs == {n \in rules.files : IsDoc(n)}

\* the documents the filter of the last projection rejects
Skipped == SourceDocs \ Matching(rules, last.include, last.exclude)

\* C27: in every projection that completes with the rules directory
\* present each *.md file of the rules directory is counted once, as linked
\* or as skipped: the two counts add up to the number of *.md files, the
\* linked count is the number of documents the filter accepts, and the run
\* creates no link for a skipped document.
C27_CountsPartitionDocs ==
    ProjectionReturned =>
        /\ last.linked + last.skipped = Cardinality(SourceDocs)
        /\ last.linked =
               Cardinality(Matching(rules, last.include, last.exclude))
        /\ \A d \in Skipped :
              IF LinkName(d) \in Names(pre.cursor)
              THEN /\ LinkName(d) \in Names(cursor)
                   /\ cursor.entries[LinkName(d)] =
                          pre.cursor.entries[LinkName(d)]
              ELSE LinkName(d) \notin Names(cursor)

\* C27, witness: a projection linked one document, making a new entry, and
\* skipped another, which has no link afterwards.
C27_Witness ==
    /\ ProjectionReturned
    /\ last.linked = 1 /\ last.skipped = 1
    /\ \E d \in Skipped : LinkName(d) \notin Names(cursor)
    /\ Names(cursor) # Names(pre.cursor)

----------------------------------------------------------------------------
(* Failing steps of install, checked under Spec.                           *)

\* the last operation was a run of install that ended with an exception
InstallRaised == InstallRan /\ last.result = "raised"

\* the steps of the last run that completed: all but the one that raised
StepsCompleted == StepsRun \ {last.action}

\* the documents the projector of the last run could not link: a directory
\* was at their link path
Blocked ==
    {d \in Matching(rules, last.include, last.exclude) :
        /\ LinkName(d) \in Names(pre.cursor)
        /\ pre.cursor.entries[LinkName(d)].kind = "dir"}

\* the documents the projector of the last run reached before the one it
\* failed on
LinkedBeforeFailure ==
    {d \in Matching(rules, last.include, last.exclude) :
        \A b \in Blocked : StrLess(d, b)}

\* C24: when a step of install raises, the run ends there with the
\* exception, the later steps are not run, and what the earlier steps of
\* the run did stays: the settings record written, the header files
\* written, and the links made before the file the projector failed on.
C24_NoRollback ==
    InstallRaised =>
        /\ last.steps # <<>>
        /\ last.steps = SubSeq(InstallSteps, 1, Len(last.steps))
        /\ last.action = last.steps[Len(last.steps)]
        /\ "settings" \in StepsCompleted =>
               /\ HasRecord(settings)
               /\ Record(settings)["last_update"] = IsoFormat(clock)
        /\ \A f \in HeaderFiles \cap StepsCompleted :
               /\ HasMarker(files[f])
               /\ ~HasMarker(pre.files[f]) => writes[f] = pre.writes[f] + 1
        /\ last.action = "rules" =>
               \A d \in LinkedBeforeFailure :
                   /\ LinkName(d) \in Names(cursor)
                   /\ cursor.entries[LinkName(d)] = Symlink(RelativeTarget(d))

\* C24, witness: the projector raised on its second document after the
\* run had written the settings record and both header files and had made
\* the link of the first document, and all of these are in place.
C24_Witness ==
    /\ InstallRaised /\ last.action = "rules"
    /\ pre.settings.kind = "absent" /\ HasRecord(settings)
    /\ \A f \in HeaderFiles : ~pre.files[f].exists /\ HasMarker(files[f])
    /\ \E d \in LinkedBeforeFailure :
          /\ LinkName(d) \notin Names(pre.cursor)
          /\ LinkName(d) \in Names(cursor)

----------------------------------------------------------------------------
(* What install leaves alone, checked under Spec.                          *)

\* C25: no run of install, whether it succeeds, exits or raises and
\* whatever its filter, changes anything under docs/ (the directory, its
\* development.md, the rules directory and its files) or the answers file
\* of the project root; what a run changes is among the settings file, the
\* two header files and the link directory.
C25_DocsReadOnly ==
    InstallRan =>
        /\ docs = pre.docs
        /\ devmd = pre.devmd
        /\ rules = pre.rules
        /\ answers = pre.answers

\* C25, witness: a successful filtered run that wrote the settings record
\* and a header file and made a link, with the rules directory as it was.
C25_Witness ==
    /\ InstallRan /\ last.result = "ok"
    /\ Truthy(last.include)
    /\ settings # pre.settings
    /\ files # pre.files
    /\ Names(cursor) # Names(pre.cursor)
    /\ rules = pre.rules /\ rules.files # {}

----------------------------------------------------------------------------
(* Properties of init and update, checked under SpecCommands.              *)

\* the last operation was a run of init or of update
CommandRan == last.op \in {"init", "update"}

\* the phases of the last run are the call of the template engine, which
\* returned, and then install
EngineThenInstall ==
    /\ last.steps = <<"engine", "install">>
    /\ last.action # "engine"

\* the tool configs are there: the settings record, the two header files
\* with the marker, the link directory
ToolConfigs ==
    /\ HasRecord(settings)
    /\ \A f \in HeaderFiles : HasMarker(files[f])
    /\ cursor.exists

\* C28: install is the last phase of init and of update and runs only after
\* the call of the template engine has returned; update in a directory
\* without .copier-answers.yml exits with status 1 and calls neither the
\* template engine nor install; an init or update that ends in success
\* ends with install having run, and the tool configs it makes are in the
\* working directory.
C28_InstallIsLastPhase ==
    CommandRan =>
        /\ \A i \in DOMAIN last.steps :
              last.steps[i] = "install" => EngineThenInstall
        /\ last.op = "update" /\ pre.answers.kind = "absent" =>
              /\ last.result = "exit1"
              /\ last.steps = <<>>
              /\ NothingWritten
              /\ docs = pre.docs /\ rules = pre.rules
        /\ last.result = "ok" =>
              /\ EngineThenInstall
              /\ ToolConfigs
              /\ Record(settings)["last_update"] = IsoFormat(clock)

\* C28, witness: in a directory with no docs/, no answers file and no tool
\* configs, init ended in success and then update did.
C28_Witness ==
    /\ last.op = "update" /\ last.result = "ok"
    /\ prev.op = "init" /\ prev.result = "ok"
    /\ ~orig.docs /\ orig.answers.kind = "absent"
    /\ orig.settings.kind = "absent"
    /\ \A f \in HeaderFiles : ~orig.files[f].exists
    /\ ToolConfigs

====
